---- MODULE Spec2Model ----
(***************************************************************************)
(* State-machine model of the download orchestration engine:               *)
(*   DownloadManager.download_files   (orchestrator, dedup filter, pool)   *)
(*   download_process_insert          (task pipeline)                      *)
(*   safe_download_file/download_file (retry and '.partial_' commit)       *)
(*   GFSForecastDownloadManager.callback (post-fetch processor)            *)
(* The file system and the per-month index databases are the only state    *)
(* that outlives a call of download_files.                                 *)
(***************************************************************************)
EXTENDS Integers, Sequences, FiniteSets, TLC

\* ------------------------------------------------------------------ bounds
NItems == 2        \* issue instants the planner can emit (items 1..NItems)
MaxRuns == 2       \* calls of download_files per behaviour
MaxBytes == 1      \* Content-Length the remote source declares for a file
PoolItems == 11    \* forecast horizons of one issue instant in a large batch
MaxParts == 4      \* components of a path returned by a planner
MaxAxes == 3       \* axes (keyword arguments) of an ArrayParser
MaxAxisLen == 2    \* values of one axis
MaxIndex == 5      \* largest magnitude of a slice bound
MaxYears == 2      \* calendar years a monthly call may name
MaxSkew == 2       \* hours between the clock and the nearest start of a month

\* ------------------------------------------------------- program constants
max_trial == 5     \* download_process_insert passes max_trial=5
max_workers == 10  \* ThreadPoolExecutor(max_workers=10)

Procs == {"A", "B"}          \* manager processes (one download_files each at a time)
Items == 1..NItems
Times == 0..NItems

Absent == [size |-> -1, mtime |-> 0]
NoExc == "none"

\* ------------------------------------------------------------------- paths
\* A path is <<root, item, suffix>>.
BufferPath(i) == <<"buffer", i, "">>
LocalPath(i) == <<"data", i, "">>
\* PartialOf of a fetcher that stages every download under one fixed name
PartialOf_Shared(dest) == <<dest[1], 1, ".partial_">>
PartialOf(dest) == <<dest[1], dest[2], ".partial_">>
TempOf(buf) == <<buf[1], buf[2], ".partial.grib2">>
Paths ==
  {BufferPath(i) : i \in Items} \cup {PartialOf(BufferPath(i)) : i \in Items}
    \cup {TempOf(BufferPath(i)) : i \in Items} \cup {LocalPath(i) : i \in Items}

SourceName(i) == <<"https", i, "">>
DbName(i) == i % 2
Dbs == {DbName(i) : i \in Items}
\* Content-Length of the remote file
ContentLength(src) == MaxBytes

VARIABLES
  fs,          \* path -> file ([size, mtime]) or Absent
  index,       \* db -> sequence of records of table 'file'; <<"nodb">> marker if not created
  created,     \* set of db files that exist
  mpc,         \* proc -> position of its download_files call
  args,        \* proc -> arguments of the call (start, end, sequential) and its serial number
  names,       \* proc -> the four parallel lists of the call
  futures,     \* proc -> sequence of tasks submitted to the pool
  errlog,      \* proc -> sources named by logging.error of the call, in order
  raised,      \* proc -> exception that escaped download_files
  nrun,        \* calls of download_files so far (also the clock of mtime)
  live,        \* processes that exist in this behaviour
  probe        \* arguments and result of the last call of a function studied on its own

vars == <<fs, index, created, mpc, args, names, futures, errlog, raised, nrun, live, probe>>

\* ---------------------------------------------------------- file system
exists(f, path) == f[path] # Absent
File(n, now) == [size |-> n, mtime |-> now]

\* ------------------------------------------------- persisted index (sql)
\* init_database called without primary_key
primary_key_None == ""

\* sql.init_database(..., primary_key='source_filename')
primary_key == "source_filename"

\* sql.exists(db_filename, table='file', attr, val)
sql_exists(idx, db, attr, val) == \E n \in 1..Len(idx[db]) : idx[db][n][attr] = val

\* sql.safe_insert(db_filename, table='file', data): rejected when the primary key is taken
sql_conflict(idx, db, data) ==
  primary_key # "" /\ sql_exists(idx, db, primary_key, data[primary_key])
sql_insert(idx, db, data) == [idx EXCEPT ![db] = Append(@, data)]

\* ------------------------------------------------------------ planner
\* GFSForecastDownloadManager._calculate_filenames_for_range: one entry per issue
\* instant t with start <= t <= end, in time order
PlannedItems(start, end) ==
  LET lo == IF start < 1 THEN 1 ELSE start
      hi == IF end > NItems THEN NItems ELSE end
  IN [k \in 1..(hi - lo + 1) |-> lo + k - 1]

EmptyNames ==
  [source_filenames |-> <<>>, buffer_filenames |-> <<>>,
   local_filenames |-> <<>>, database_filenames |-> <<>>]

\* DownloadManager.calculate_filenames_for_range (start < end already checked)
calculate_filenames_for_range(start, end) ==
  LET its == PlannedItems(start, end) IN
  [source_filenames   |-> [k \in DOMAIN its |-> SourceName(its[k])],
   buffer_filenames   |-> [k \in DOMAIN its |-> BufferPath(its[k])],
   local_filenames    |-> [k \in DOMAIN its |-> LocalPath(its[k])],
   database_filenames |-> [k \in DOMAIN its |-> DbName(its[k])]]

\* ------------------------------------------------- planner paths (pathlib)
\* A planner path is the sequence of its components; an absolute path starts
\* with "/". None is the sentinel of a staging path that is not used; it is no
\* path, and an f-string renders it as the component "None".
None == <<"NoneType">>
format(root) == IF root = None THEN <<"None">> ELSE root
NoValue == 0 - 1                       \* None of a keyword argument that holds a number
base_dir == <<"/", "base">>
database_dir == base_dir \o <<"database">>   \* f"{base_dir}/database/"
data_dir == base_dir \o <<"data">>           \* f"{base_dir}/data/"
buffer_dir == <<"/", "buf">>

\* Path(p).is_absolute()
is_absolute(p) == p # <<>> /\ p[1] = "/"

\* Path(p).relative_to(root) returns: root is a prefix of p, component by
\* component (pathlib compares lexically and does not resolve "..")
relative_to(p, root) == Len(root) <= Len(p) /\ SubSeq(p, 1, Len(root)) = root

\* one iteration of the loop of convert_paths; exc is the exception it raises
convert_path(p, root) ==
  IF p = None THEN [exc |-> NoExc, path |-> None]
  ELSE IF is_absolute(p) THEN
    IF root = None THEN [exc |-> "TypeError", path |-> None]
    ELSE IF ~relative_to(p, root) THEN [exc |-> "ValueError", path |-> None]
    ELSE [exc |-> NoExc, path |-> p]
  ELSE [exc |-> NoExc, path |-> format(root) \o p]      \* f"{relative_to}/{p}"

\* convert_paths(paths, varname, relative_to): the converted list, or the first exception
convert_paths(paths, root) ==
  LET r == [k \in DOMAIN paths |-> convert_path(paths[k], root)]
      bad == {k \in DOMAIN paths : r[k].exc # NoExc}
  IN IF bad = {}
       THEN [exc |-> NoExc, ret |-> [k \in DOMAIN paths |-> r[k].path]]
       ELSE [exc |-> r[CHOOSE k \in bad : \A j \in bad : k <= j].exc, ret |-> <<>>]

\* itertools.compress(data, selectors)
RECURSIVE compress(_, _)
compress(data, selectors) ==
  IF data = <<>> \/ selectors = <<>> THEN <<>>
  ELSE (IF Head(selectors) THEN <<Head(data)>> ELSE <<>>)
         \o compress(Tail(data), Tail(selectors))

\* dne = [not sql.exists(db, 'file', 'source_filename', s) for (d, s) in zip(dbs, sources)]
Dne(idx, n) ==
  [k \in DOMAIN n.source_filenames |->
     ~sql_exists(idx, n.database_filenames[k], "source_filename", n.source_filenames[k])]

\* Filtered with buffer_filenames left unfiltered
Filtered_BufferKept(n, dne) ==
  [source_filenames   |-> compress(n.source_filenames, dne),
   buffer_filenames   |-> n.buffer_filenames,
   local_filenames    |-> compress(n.local_filenames, dne),
   database_filenames |-> compress(n.database_filenames, dne)]

\* the four lists after itertools.compress with dne
Filtered(n, dne) ==
  [source_filenames   |-> compress(n.source_filenames, dne),
   buffer_filenames   |-> compress(n.buffer_filenames, dne),
   local_filenames    |-> compress(n.local_filenames, dne),
   database_filenames |-> compress(n.database_filenames, dne)]

\* sum(dne)
RECURSIVE CountTrue(_)
CountTrue(s) == IF s = <<>> THEN 0 ELSE (IF Head(s) THEN 1 ELSE 0) + CountTrue(Tail(s))

\* ------------------------------------------------------------------ tasks
NoMeta ==
  [product |-> "", datatype |-> "", source_filename |-> <<>>, local_filename |-> <<>>,
   size |-> -1, last_modified |-> 0]

\* exe.submit(download_process_insert, dict(source_filename=..., ...)) for the k-th zip entry
Submit(n, k) ==
  [source_filename   |-> n.source_filenames[k],
   buffer_filename   |-> n.buffer_filenames[k],
   local_filename    |-> n.local_filenames[k],
   database_filename |-> n.database_filenames[k],
   pc |-> "pending", trial |-> 0, flag |-> "unset", exc |-> NoExc, reply |-> "",
   requests |-> 0, sleeps |-> 0, callbacks |-> 0, inserts |-> 0, meta |-> NoMeta]

Tasks(p) == DOMAIN futures[p]
Running(p) == {k \in Tasks(p) : futures[p][k].pc \notin {"pending", "done"}}
SetTask(p, k, t) == futures' = [futures EXCEPT ![p][k] = t]
Raise(t, e) == [t EXCEPT !.pc = "done", !.exc = e]

\* ----------------------------------------------------------------- fetcher
E404 == {"HTTP Error 404 Not Found", "HTTP Error 404: Not Found"}
ETransient == {"HTTP Error 503: Service Unavailable", "ContentTooShortError"}

\* Except with the 404 test lost: a 404 is handled like any other exception
Except_404Retried(t, e, http_404_ok) ==
  IF t.trial + 1 < max_trial
    THEN [t EXCEPT !.sleeps = @ + 1, !.trial = @ + 1, !.pc = "request"]
    ELSE [t EXCEPT !.sleeps = @ + 1, !.trial = 0, !.pc = "done", !.flag = "None"]

\* Except without the retry loop: any exception but a tolerated 404 leaves the fetch
Except_NoRetry(t, e, http_404_ok) ==
  IF e \in E404 /\ http_404_ok
    THEN [t EXCEPT !.pc = "done", !.flag = "False", !.trial = 0]
    ELSE [t EXCEPT !.pc = "done", !.exc = "MaximumTrialExceededError"]

\* the except clause of safe_download_file for exception e caught in trial t.trial
Except(t, e, http_404_ok) ==
  IF e \in E404 THEN
    IF http_404_ok
      THEN [t EXCEPT !.pc = "done", !.flag = "False", !.trial = 0]
      ELSE [t EXCEPT !.pc = "done", !.exc = "FileNotFoundError"]
  ELSE IF t.trial < max_trial THEN
    \* time.sleep(5); continue -- and the for loop ends after range(max_trial)
    IF t.trial + 1 < max_trial
      THEN [t EXCEPT !.sleeps = @ + 1, !.trial = @ + 1, !.pc = "request"]
      ELSE [t EXCEPT !.sleeps = @ + 1, !.trial = 0, !.pc = "done", !.flag = "None"]
  ELSE [t EXCEPT !.pc = "done", !.exc = "MaximumTrialExceededError"]

\* safe_download_file passes f"{dest_filename}.partial_" to download_file
DownloadTarget(dest) == PartialOf(dest)

\* SizeMatches with the comparison lost
SizeMatches_Unchecked(f, path, bytesize) == TRUE

\* the size check of download_file: os.stat(dest).st_size != bytesize raises
SizeMatches(f, path, bytesize) == f[path].size = bytesize

\* StartTask with exist_ok=True passed to safe_download_file
StartTask_ExistOk(p, k) ==
  /\ mpc[p] = "pool" /\ k \in Tasks(p)
  /\ futures[p][k].pc = "pending"
  /\ Cardinality(Running(p)) < max_workers
  /\ LET t == futures[p][k] IN
       IF t.buffer_filename = None
         THEN SetTask(p, k, Raise(t, "TypeError"))      \* Path(None), line 222
         ELSE SetTask(p, k, [t EXCEPT !.pc = "request"])
  /\ UNCHANGED <<fs, index, created, mpc, args, names, errlog, raised, nrun, live, probe>>

\* StartTask of a pool that starts a thread per submitted task
StartTask_Unbounded(p, k) ==
  /\ mpc[p] = "pool" /\ k \in Tasks(p)
  /\ futures[p][k].pc = "pending"
  /\ LET t == futures[p][k] IN
       IF t.buffer_filename = None
         THEN SetTask(p, k, Raise(t, "TypeError"))      \* Path(None), line 222
       ELSE IF exists(fs, t.buffer_filename)
         THEN SetTask(p, k, Raise(t, "FileExistsError"))
         ELSE SetTask(p, k, [t EXCEPT !.pc = "request"])
  /\ UNCHANGED <<fs, index, created, mpc, args, names, errlog, raised, nrun, live, probe>>

\* a worker takes the task: download_process_insert up to the existence check of
\* safe_download_file(..., max_trial=5, http_404_ok=True, exist_ok=False); the
\* first statement, Path(buffer_filename).parent.mkdir(...), raises TypeError for
\* the None sentinel
StartTask(p, k) ==
  /\ mpc[p] = "pool" /\ k \in Tasks(p)
  /\ futures[p][k].pc = "pending"
  /\ Cardinality(Running(p)) < max_workers
  /\ LET t == futures[p][k] IN
       IF t.buffer_filename = None
         THEN SetTask(p, k, Raise(t, "TypeError"))      \* Path(None), line 222
       ELSE IF exists(fs, t.buffer_filename)
         THEN SetTask(p, k, Raise(t, "FileExistsError"))
         ELSE SetTask(p, k, [t EXCEPT !.pc = "request"])
  /\ UNCHANGED <<fs, index, created, mpc, args, names, errlog, raised, nrun, live, probe>>

\* one call of download_file that ends in an exception before or during the transfer
AttemptFails(p, k) ==
  /\ mpc[p] = "pool" /\ k \in Tasks(p)
  /\ futures[p][k].pc = "request"
  /\ LET t == [futures[p][k] EXCEPT !.requests = @ + 1, !.reply = "error"] IN
     \/ \* the request for Content-Length (or the transfer request) is refused
        /\ \E e \in ETransient : SetTask(p, k, Except(t, e, TRUE))
        /\ fs' = fs
     \/ \* ... or answered 404
        /\ \E e \in E404 : SetTask(p, k, Except([t EXCEPT !.reply = "404"], e, TRUE))
        /\ fs' = fs
     \/ \* the connection breaks after n bytes reached the file
        /\ \E n \in 0..(ContentLength(t.source_filename) - 1) :
             fs' = [fs EXCEPT ![DownloadTarget(t.buffer_filename)] = File(n, nrun)]
        /\ SetTask(p, k, Except(t, "ContentTooShortError", TRUE))
  /\ UNCHANGED <<index, created, mpc, args, names, errlog, raised, nrun, live, probe>>

\* AttemptWrites of a download_file that opens its file for appending
AttemptWrites_Append(p, k) ==
  /\ mpc[p] = "pool" /\ k \in Tasks(p)
  /\ futures[p][k].pc = "request"
  /\ LET t == futures[p][k]
         part == DownloadTarget(t.buffer_filename)
         old == IF exists(fs, part) THEN fs[part].size ELSE 0
     IN
     \E n \in 0..ContentLength(t.source_filename) :
       /\ fs' = [fs EXCEPT ![part] = File(old + n, nrun)]
       /\ SetTask(p, k, [t EXCEPT !.requests = @ + 1, !.reply = "data", !.pc = "written"])
  /\ UNCHANGED <<index, created, mpc, args, names, errlog, raised, nrun, live, probe>>

\* one call of download_file whose transfer returns: n bytes are in the file, the
\* size check is still to come
AttemptWrites(p, k) ==
  /\ mpc[p] = "pool" /\ k \in Tasks(p)
  /\ futures[p][k].pc = "request"
  /\ LET t == futures[p][k] IN
     \E n \in 0..ContentLength(t.source_filename) :
       /\ fs' = [fs EXCEPT ![DownloadTarget(t.buffer_filename)] = File(n, nrun)]
       /\ SetTask(p, k, [t EXCEPT !.requests = @ + 1, !.reply = "data", !.pc = "written"])
  /\ UNCHANGED <<index, created, mpc, args, names, errlog, raised, nrun, live, probe>>

\* the size check of download_file, then os.replace and return True, or the except clause
Verify(p, k) ==
  /\ mpc[p] = "pool" /\ k \in Tasks(p)
  /\ futures[p][k].pc = "written"
  /\ LET t == futures[p][k]
         part == DownloadTarget(t.buffer_filename)
     IN
     IF ~exists(fs, part) THEN
       \* os.stat raises FileNotFoundError: caught like any other exception
       /\ SetTask(p, k, Except([t EXCEPT !.reply = "error"], "FileNotFoundError", TRUE))
       /\ fs' = fs
     ELSE IF ~SizeMatches(fs, part, ContentLength(t.source_filename)) THEN
       /\ SetTask(p, k, Except([t EXCEPT !.reply = "error"], "IncompleteDownloadError", TRUE))
       /\ fs' = fs
     ELSE IF ~exists(fs, PartialOf(t.buffer_filename)) THEN
       \* os.replace raises FileNotFoundError: caught like any other exception
       /\ SetTask(p, k, Except([t EXCEPT !.reply = "error"], "FileNotFoundError", TRUE))
       /\ fs' = fs
     ELSE
       \* os.replace(f"{dest_filename}.partial_", dest_filename); return True
       /\ fs' = [fs EXCEPT ![PartialOf(t.buffer_filename)] = Absent,
                           ![t.buffer_filename] = fs[PartialOf(t.buffer_filename)]]
       /\ SetTask(p, k, [t EXCEPT !.pc = "compress", !.flag = "True", !.trial = 0,
                                   !.requests = 0, !.sleeps = 0])
  /\ UNCHANGED <<index, created, mpc, args, names, errlog, raised, nrun, live, probe>>

\* ---------------------------------------------------- post-fetch processor
\* Compress in a pipeline that fetches again when the processor fails
Compress_Refetch(p, k) ==
  /\ mpc[p] = "pool" /\ k \in Tasks(p)
  /\ futures[p][k].pc = "compress"
  /\ LET t == [futures[p][k] EXCEPT !.callbacks = @ + 1] IN
     \/ /\ exists(fs, t.buffer_filename)
        /\ fs' = [fs EXCEPT ![TempOf(t.buffer_filename)] =
                               File(fs[t.buffer_filename].size, nrun)]
        /\ SetTask(p, k, [t EXCEPT !.pc = "convert"])
     \/ /\ fs' = fs
        /\ SetTask(p, k, [t EXCEPT !.pc = "request"])
  /\ UNCHANGED <<index, created, mpc, args, names, errlog, raised, nrun, live, probe>>

\* GFSForecastDownloadManager.callback, step 1: run_command(compress_command),
\* wgrib2 reads buffer_filename and writes temp_filename; the command may fail
Compress(p, k) ==
  /\ mpc[p] = "pool" /\ k \in Tasks(p)
  /\ futures[p][k].pc = "compress"
  /\ LET t == [futures[p][k] EXCEPT !.callbacks = @ + 1] IN
     \/ /\ exists(fs, t.buffer_filename)
        /\ fs' = [fs EXCEPT ![TempOf(t.buffer_filename)] =
                               File(fs[t.buffer_filename].size, nrun)]
        /\ SetTask(p, k, [t EXCEPT !.pc = "convert"])
     \/ /\ fs' = fs
        /\ SetTask(p, k, Raise(t, "ProcessorError"))
  /\ UNCHANGED <<index, created, mpc, args, names, errlog, raised, nrun, live, probe>>

\* Convert of a processor that removes its staged and temporary files when the
\* conversion fails
Convert_Cleanup(p, k) ==
  /\ mpc[p] = "pool" /\ k \in Tasks(p)
  /\ futures[p][k].pc = "convert"
  /\ LET t == futures[p][k] IN
     \/ /\ exists(fs, TempOf(t.buffer_filename))
        /\ fs' = [fs EXCEPT ![t.local_filename] =
                               File(fs[TempOf(t.buffer_filename)].size, nrun)]
        /\ SetTask(p, k, [t EXCEPT !.pc = "finish"])
     \/ /\ fs' = [fs EXCEPT ![t.buffer_filename] = Absent,
                           ![TempOf(t.buffer_filename)] = Absent]
        /\ SetTask(p, k, Raise(t, "ProcessorError"))
  /\ UNCHANGED <<index, created, mpc, args, names, errlog, raised, nrun, live, probe>>

\* callback, step 2: run_command(conversion_command), wgrib2 reads temp_filename and
\* writes local_filename; the command may fail
Convert(p, k) ==
  /\ mpc[p] = "pool" /\ k \in Tasks(p)
  /\ futures[p][k].pc = "convert"
  /\ LET t == futures[p][k] IN
     \/ /\ exists(fs, TempOf(t.buffer_filename))
        /\ fs' = [fs EXCEPT ![t.local_filename] =
                               File(fs[TempOf(t.buffer_filename)].size, nrun)]
        /\ SetTask(p, k, [t EXCEPT !.pc = "finish"])
     \/ /\ fs' = fs
        /\ SetTask(p, k, Raise(t, "ProcessorError"))
  /\ UNCHANGED <<index, created, mpc, args, names, errlog, raised, nrun, live, probe>>

\* Metadata with local_filename passed as source_filename
Metadata_LocalAsSource(t, f, now) ==
  [product |-> "GFS", datatype |-> "forecast",
   source_filename |-> t.local_filename, local_filename |-> t.local_filename,
   size |-> f[t.local_filename].size, last_modified |-> now]

\* GFSForecastMetadata(source_filename, local_filename, size=os.stat(local).st_size, ...)
Metadata(t, f, now) ==
  [product |-> "GFS", datatype |-> "forecast",
   source_filename |-> t.source_filename, local_filename |-> t.local_filename,
   size |-> f[t.local_filename].size, last_modified |-> now]

\* callback, step 3: unlink buffer_filename and temp_filename, build the metadata
Finish(p, k) ==
  /\ mpc[p] = "pool" /\ k \in Tasks(p)
  /\ futures[p][k].pc = "finish"
  /\ LET t == futures[p][k]
         temp == TempOf(t.buffer_filename)
     IN
     IF ~exists(fs, t.buffer_filename) THEN
       /\ fs' = fs
       /\ SetTask(p, k, Raise(t, "FileNotFoundError"))
     ELSE IF ~exists(fs, temp) THEN
       /\ fs' = [fs EXCEPT ![t.buffer_filename] = Absent]
       /\ SetTask(p, k, Raise(t, "FileNotFoundError"))
     ELSE
       /\ fs' = [fs EXCEPT ![t.buffer_filename] = Absent, ![temp] = Absent]
       /\ IF exists(fs, t.local_filename)
            THEN SetTask(p, k, [t EXCEPT !.pc = "insert", !.meta = Metadata(t, fs, nrun)])
            ELSE SetTask(p, k, Raise(t, "FileNotFoundError"))
  /\ UNCHANGED <<index, created, mpc, args, names, errlog, raised, nrun, live, probe>>

\* sql.safe_insert(db_filename=database_filename, table='file', data=file_metadata.to_dict())
Insert(p, k) ==
  /\ mpc[p] = "pool" /\ k \in Tasks(p)
  /\ futures[p][k].pc = "insert"
  /\ LET t == [futures[p][k] EXCEPT !.inserts = @ + 1] IN
     \/ /\ ~sql_conflict(index, t.database_filename, t.meta)
        /\ index' = sql_insert(index, t.database_filename, t.meta)
        /\ SetTask(p, k, [t EXCEPT !.pc = "done"])
     \/ \* conflict on the primary key, or the database refuses the write
        /\ index' = index
        /\ SetTask(p, k, Raise(t, "InsertError"))
  /\ UNCHANGED <<fs, created, mpc, args, names, errlog, raised, nrun, live, probe>>

\* ------------------------------------------------------------ orchestrator
Min(a, b) == IF a < b THEN a ELSE b
Range(s) == {s[k] : k \in DOMAIN s}

\* zip(source_filenames, buffer_filenames, local_filenames, database_filenames)
ZipLen(n) ==
  Min(Min(Len(n.source_filenames), Len(n.buffer_filenames)),
      Min(Len(n.local_filenames), Len(n.database_filenames)))

\* futures = [exe.submit(download_process_insert, dict(...)) for ... in zip(...)]
SubmitAll(n) == [k \in 1..ZipLen(n) |-> Submit(n, k)]

\* for future, source_filename in zip(futures, source_filenames):
\*     try: future.result()  except Exception: logging.error(... {source_filename} ...)
RECURSIVE ErrorLog(_, _)
ErrorLog(futs, srcs) ==
  IF futs = <<>> \/ srcs = <<>> THEN <<>>
  ELSE (IF Head(futs).exc # NoExc THEN <<Head(srcs)>> ELSE <<>>)
         \o ErrorLog(Tail(futs), Tail(srcs))

\* Branch with the sequential test moved before the early return
Branch_SequentialFirst(dne, seq) ==
  IF seq THEN "sequential" ELSE IF CountTrue(dne) = 0 THEN "none" ELSE "pool"

\* the branch of download_files after the filter: "none" returns at once,
\* "pool" dispatches, "sequential" raises NotImplementedError
Branch(dne, seq) ==
  IF CountTrue(dne) = 0 THEN "none" ELSE IF ~seq THEN "pool" ELSE "sequential"

\* download_files(mode='range', start, end, sequential): file names, database
\* initialisation, dedup filter and dispatch; start and end are drawn from W,
\* sequential from S
DownloadFilesIn(p, W, S) ==
  /\ p \in live
  /\ mpc[p] \in {"idle", "returned", "raised", "killed"}
  /\ nrun < MaxRuns
  /\ nrun' = nrun + 1
  /\ errlog' = [errlog EXCEPT ![p] = <<>>]
  /\ \E start \in W, end \in W, seq \in S :
       /\ args' = [args EXCEPT ![p] =
            [call |-> nrun + 1, start |-> start, end |-> end, sequential |-> seq]]
       /\ IF start >= end THEN
            \* calculate_filenames_for_range: 'start' cannot be after 'end'
            /\ mpc' = [mpc EXCEPT ![p] = "raised"]
            /\ raised' = [raised EXCEPT ![p] = "ValueError"]
            /\ names' = [names EXCEPT ![p] = EmptyNames]
            /\ futures' = [futures EXCEPT ![p] = <<>>]
            /\ UNCHANGED <<index, created>>
          ELSE
            LET n == calculate_filenames_for_range(start, end)
                dne == Dne(index, n)
                new == Filtered(n, dne)
                br == Branch(dne, seq)
            IN
            /\ created' = created \cup Range(n.database_filenames)
            /\ names' = [names EXCEPT ![p] = new]
            /\ index' = index
            /\ mpc' = [mpc EXCEPT ![p] =
                 CASE br = "none" -> "returned" [] br = "pool" -> "pool" [] OTHER -> "raised"]
            /\ raised' = [raised EXCEPT ![p] =
                 IF br = "sequential" THEN "NotImplementedError" ELSE NoExc]
            /\ futures' = [futures EXCEPT ![p] =
                 IF br = "pool" THEN SubmitAll(new) ELSE <<>>]
  /\ UNCHANGED <<fs, live>>

\* Join with future.result() outside the try: the first task exception escapes
Join_Reraises(p) ==
  /\ mpc[p] = "pool"
  /\ \A k \in Tasks(p) : futures[p][k].pc = "done"
  /\ errlog' = errlog
  /\ IF \E k \in Tasks(p) : futures[p][k].exc # NoExc
       THEN /\ mpc' = [mpc EXCEPT ![p] = "raised"]
            /\ raised' = [raised EXCEPT ![p] =
                 futures[p][CHOOSE k \in Tasks(p) : futures[p][k].exc # NoExc].exc]
       ELSE /\ mpc' = [mpc EXCEPT ![p] = "returned"]
            /\ raised' = raised
  /\ UNCHANGED <<fs, index, created, args, names, futures, nrun, live, probe>>

\* Join of a pool shut down without waiting: the result loop and the completion
\* report do not wait for the tasks
Join_NoWait(p) ==
  /\ mpc[p] = "pool"
  /\ errlog' = [errlog EXCEPT ![p] = ErrorLog(futures[p], names[p].source_filenames)]
  /\ mpc' = [mpc EXCEPT ![p] = "returned"]
  /\ UNCHANGED <<fs, index, created, args, names, futures, raised, nrun, live, probe>>

\* a call of download_files with any window and either mode
DownloadFiles(p) == DownloadFilesIn(p, Times, BOOLEAN) /\ UNCHANGED probe

\* a call of download_files, pooled, whose window holds the first issue instant only
DownloadFirst(p) == DownloadFilesIn(p, 0..1, {FALSE}) /\ UNCHANGED probe

\* ------------------------------------------- download_files, all three modes
\* pd.Timestamp.utcnow(), in the unit of the issue instants
utcnow == NItems
\* the month of utcnow is month 11, it began at instant 0; month 12 is the next
MonthStart(month) == IF month = 11 THEN 0 ELSE NItems + 1
MonthLast(month) == MonthStart(month) + NItems

\* shapes of the final paths a subclass planner may return ("Could either be
\* relative or absolute"): an element for item i
Planners == {"relative", "absolute", "absolute_outside", "relative_parent"}
PlannerLocal(planner, i) ==
  CASE planner = "relative" -> <<"2026_11", ToString(i)>>
    [] planner = "absolute" -> data_dir \o <<"2026_11", ToString(i)>>
    [] planner = "absolute_outside" -> <<"/", "etc", ToString(i)>>
    [] OTHER -> <<"..", "..", ToString(i)>>

\* keyword arguments of a call: the parameters of the other modes stay None
Kwargs ==
  [mode : {"latest"}, backfill_hours : {NoValue} \cup 0..NItems,
   year : {NoValue}, month : {NoValue}, start : {NoValue}, end : {NoValue},
   planner : Planners]
  \cup
  [mode : {"monthly"}, backfill_hours : {NoValue},
   year : {NoValue, 2026}, month : {NoValue, 11, 12}, start : {NoValue}, end : {NoValue},
   planner : Planners]
  \cup
  [mode : {"range"}, backfill_hours : {NoValue},
   year : {NoValue}, month : {NoValue},
   start : {NoValue} \cup Times, end : {NoValue} \cup Times,
   planner : Planners]

\* calculate_filenames_for_range of the base class up to its return: the start/end
\* test, the planner, convert_paths of the final paths
RangeWindow(start, end, planner) ==
  IF start >= end THEN [exc |-> "ValueError", start |-> start, end |-> end]
  ELSE LET its == PlannedItems(start, end)
           loc == [k \in DOMAIN its |-> PlannerLocal(planner, its[k])]
       IN [exc |-> convert_paths(loc, data_dir).exc, start |-> start, end |-> end]

\* lines 93-104 of download_files: the window of the mode, or the exception raised
\* while the file names are calculated
ModeWindow(kw) ==
  LET bad == [exc |-> "ValueError", start |-> 0, end |-> 0] IN
  CASE kw.mode = "latest" ->
         IF kw.backfill_hours = NoValue THEN bad
         ELSE RangeWindow(utcnow - kw.backfill_hours, utcnow, kw.planner)
    [] kw.mode = "monthly" ->
         IF kw.year = NoValue \/ kw.month = NoValue THEN bad
         ELSE IF MonthStart(kw.month) > utcnow THEN bad
         ELSE RangeWindow(MonthStart(kw.month), Min(utcnow, MonthLast(kw.month)), kw.planner)
    [] OTHER ->
         IF kw.start = NoValue \/ kw.end = NoValue THEN bad
         ELSE RangeWindow(kw.start, kw.end, kw.planner)

\* download_files(mode=..., year, month, backfill_hours, start, end) with a planner
\* of any shape: an exception of lines 93-104 leaves the call at once, otherwise the
\* call goes on as DownloadFilesIn over the window of the mode
DownloadFilesMode(p) ==
  \E kw \in Kwargs :
    LET w == ModeWindow(kw) IN
    /\ probe' = [fn |-> "download_files", kwargs |-> kw]
    /\ IF w.exc # NoExc THEN
         /\ p \in live
         /\ mpc[p] \in {"idle", "returned", "raised", "killed"}
         /\ nrun < MaxRuns
         /\ nrun' = nrun + 1
         /\ args' = [args EXCEPT ![p] =
              [call |-> nrun + 1, start |-> w.start, end |-> w.end, sequential |-> FALSE]]
         /\ mpc' = [mpc EXCEPT ![p] = "raised"]
         /\ raised' = [raised EXCEPT ![p] = w.exc]
         /\ names' = [names EXCEPT ![p] = EmptyNames]
         /\ futures' = [futures EXCEPT ![p] = <<>>]
         /\ errlog' = [errlog EXCEPT ![p] = <<>>]
         /\ UNCHANGED <<fs, index, created, live>>
       ELSE
         /\ DownloadFilesIn(p, {w.start, w.end}, {FALSE})
         /\ args'[p].start = w.start /\ args'[p].end = w.end

\* the pool has drained (exit of the with block): the result loop logs the failures
\* in submission order, then "Completed downloading."
Join(p) ==
  /\ mpc[p] = "pool"
  /\ \A k \in Tasks(p) : futures[p][k].pc = "done"
  /\ errlog' = [errlog EXCEPT ![p] = ErrorLog(futures[p], names[p].source_filenames)]
  /\ mpc' = [mpc EXCEPT ![p] = "returned"]
  /\ UNCHANGED <<fs, index, created, args, names, futures, raised, nrun, live, probe>>

\* the process is killed while the pool works: memory is lost, files and index stay
Interrupt(p) ==
  /\ mpc[p] = "pool"
  /\ mpc' = [mpc EXCEPT ![p] = "killed"]
  /\ futures' = [futures EXCEPT ![p] = <<>>]
  /\ names' = [names EXCEPT ![p] = EmptyNames]
  /\ UNCHANGED <<fs, index, created, args, errlog, raised, nrun, live, probe>>

NoArgs == [call |-> 0, start |-> 0, end |-> 0, sequential |-> FALSE]
NoProbe == [fn |-> "none"]

InitRest ==
  /\ index = [d \in Dbs |-> <<>>]
  /\ created = {}
  /\ mpc = [p \in Procs |-> "idle"]
  /\ args = [p \in Procs |-> NoArgs]
  /\ names = [p \in Procs |-> EmptyNames]
  /\ futures = [p \in Procs |-> <<>>]
  /\ errlog = [p \in Procs |-> <<>>]
  /\ raised = [p \in Procs |-> NoExc]
  /\ nrun = 0
  /\ probe = NoProbe

InitState == fs = [path \in Paths |-> Absent] /\ InitRest

\* one manager process
Init == InitState /\ live = {"A"}

TaskStep(p, k) ==
  \/ StartTask(p, k)
  \/ AttemptFails(p, k)
  \/ AttemptWrites(p, k)
  \/ Verify(p, k)
  \/ Compress(p, k)
  \/ Convert(p, k)
  \/ Finish(p, k)
  \/ Insert(p, k)

\* calls of download_files that run to their end, one after the other
Next ==
  \E p \in Procs :
    \/ DownloadFiles(p)
    \/ Join(p)
    \/ \E k \in Items : TaskStep(p, k)

Spec == Init /\ [][Next]_vars

\* calls for the first issue instant, any of which may be killed at any point
NextFetch ==
  \E p \in Procs :
    \/ DownloadFirst(p)
    \/ Join(p)
    \/ Interrupt(p)
    \/ \E k \in Items : TaskStep(p, k)

SpecFetch == Init /\ [][NextFetch]_vars

\* two manager processes on the same storage root, their calls overlapping in time
InitConcurrent == InitState /\ live = Procs
NextConcurrent ==
  \E p \in Procs :
    \/ DownloadFirst(p)
    \/ Join(p)
    \/ Interrupt(p)
    \/ \E k \in Items : TaskStep(p, k)
SpecConcurrent == InitConcurrent /\ [][NextConcurrent]_vars

\* ------------------------------------------------- one large pooled batch
\* the planner with forecast_horizon_hours = 1..PoolItems: one issue instant
\* yields PoolItems entries, all of the same month
BatchNames ==
  [source_filenames   |-> [k \in 1..PoolItems |-> SourceName(k)],
   buffer_filenames   |-> [k \in 1..PoolItems |-> BufferPath(k)],
   local_filenames    |-> [k \in 1..PoolItems |-> LocalPath(k)],
   database_filenames |-> [k \in 1..PoolItems |-> DbName(1)]]
BatchPaths ==
  {BufferPath(i) : i \in 1..PoolItems} \cup {PartialOf(BufferPath(i)) : i \in 1..PoolItems}
    \cup {TempOf(BufferPath(i)) : i \in 1..PoolItems} \cup {LocalPath(i) : i \in 1..PoolItems}

\* download_files(mode='range', ...), pooled, as the first call of the process,
\* for a planner that returned the lists n
DownloadNamedIn(p, n) ==
  /\ p \in live
  /\ mpc[p] = "idle" /\ nrun = 0
  /\ nrun' = nrun + 1
  /\ errlog' = [errlog EXCEPT ![p] = <<>>]
  /\ args' = [args EXCEPT ![p] = [call |-> nrun + 1, start |-> 0, end |-> 1, sequential |-> FALSE]]
  /\ LET dne == Dne(index, n)
         new == Filtered(n, dne)
         br == Branch(dne, FALSE)
     IN
     /\ created' = created \cup Range(n.database_filenames)
     /\ names' = [names EXCEPT ![p] = new]
     /\ index' = index
     /\ mpc' = [mpc EXCEPT ![p] = IF br = "none" THEN "returned" ELSE "pool"]
     /\ raised' = raised
     /\ futures' = [futures EXCEPT ![p] = IF br = "pool" THEN SubmitAll(new) ELSE <<>>]
  /\ UNCHANGED <<fs, live>>
DownloadNamed(p, n) == DownloadNamedIn(p, n) /\ UNCHANGED probe

\* the call over the large batch
DownloadBatch(p) == DownloadNamed(p, BatchNames)

\* the remote source has none of the files: every request is answered 404
NotFoundReply(p, k) == AttemptFails(p, k) /\ futures'[p][k].reply = "404"

\* the executor hands the submitted tasks to its workers in submission order
StartNext(p, k) ==
  /\ k \in Tasks(p)
  /\ \A j \in 1..(k - 1) : futures[p][j].pc # "pending"
  /\ StartTask(p, k)

InitBatch == fs = [path \in BatchPaths |-> Absent] /\ InitRest /\ live = {"A"}
NextBatch ==
  \E p \in Procs :
    \/ DownloadBatch(p)
    \/ Join(p)
    \/ \E k \in 1..PoolItems : StartNext(p, k) \/ NotFoundReply(p, k)
\* the worker threads and the main thread are scheduled: the call does not stop
\* while one of them can take a step
SpecBatch == InitBatch /\ [][NextBatch]_vars /\ WF_vars(NextBatch)

\* ------------------------------------------- a batch with mixed outcomes
\* what the remote source does with each of three candidates: answers 404, serves
\* the file at once, fails twice (any transient failure) and then serves the file
Scenario == <<"404", "ok", "retry2">>
ScenarioNames ==
  [source_filenames   |-> [k \in DOMAIN Scenario |-> SourceName(k)],
   buffer_filenames   |-> [k \in DOMAIN Scenario |-> BufferPath(k)],
   local_filenames    |-> [k \in DOMAIN Scenario |-> LocalPath(k)],
   database_filenames |-> [k \in DOMAIN Scenario |-> DbName(k)]]
ScenarioPaths ==
  UNION {{BufferPath(i), PartialOf(BufferPath(i)), TempOf(BufferPath(i)), LocalPath(i)} :
           i \in DOMAIN Scenario}

DownloadScenario(p) == DownloadNamed(p, ScenarioNames)

\* a step of task k with the remote source following Scenario, and wgrib2 and the
\* database working
ScenarioStep(p, k) ==
  \/ StartTask(p, k)
  \/ /\ AttemptFails(p, k)
     /\ \/ Scenario[k] = "404" /\ futures'[p][k].reply = "404"
        \/ /\ Scenario[k] = "retry2" /\ futures[p][k].requests < 2
           /\ futures'[p][k].reply = "error"
  \/ /\ AttemptWrites(p, k)
     /\ LET part == DownloadTarget(futures[p][k].buffer_filename)
            whole == fs'[part].size = ContentLength(futures[p][k].source_filename)
        IN \/ Scenario[k] = "ok" /\ whole
           \/ Scenario[k] = "retry2" /\ (whole <=> futures[p][k].requests = 2)
  \/ /\ Verify(p, k) \/ Compress(p, k) \/ Convert(p, k) \/ Finish(p, k) \/ Insert(p, k)
     /\ futures'[p][k].exc = NoExc

InitScenario == fs = [path \in ScenarioPaths |-> Absent] /\ InitRest /\ live = {"A"}
NextScenario ==
  \E p \in Procs :
    \/ DownloadScenario(p)
    \/ Join(p)
    \/ \E k \in DOMAIN Scenario : ScenarioStep(p, k)
SpecScenario == InitScenario /\ [][NextScenario]_vars

\* --------------------------------- calculate_filenames_for_range on its own
\* the paths a planner may return: up to MaxParts components, "/" first if absolute
Parts == {"..", "base", "data", "database", "buf", "f"}
RECURSIVE SeqsUpTo(_, _)
SeqsUpTo(S, n) ==
  IF n = 0 THEN {<<>>}
  ELSE LET shorter == SeqsUpTo(S, n - 1)
       IN shorter \cup {Append(q, x) : q \in shorter, x \in S}
PlannerPaths ==
  SeqsUpTo(Parts, MaxParts) \cup {<<"/">> \o q : q \in SeqsUpTo(Parts, MaxParts - 1)}

\* the list a path belongs to and the root convert_paths is given for it;
\* "buffer_none" is a manager constructed with buffer_dir=None
Lists == {"local_filenames", "db_filenames", "buffer_filenames", "buffer_none"}
RootOf(list) ==
  CASE list = "local_filenames" -> data_dir
    [] list = "db_filenames" -> database_dir
    [] list = "buffer_filenames" -> buffer_dir
    [] OTHER -> None

\* lines 174-182 for one of the lists: convert_paths, then for buffer_dir=None the
\* test that the staging list holds None only
ConvertedList(list, paths) ==
  LET c == convert_paths(paths, RootOf(list)) IN
  IF c.exc # NoExc THEN c
  ELSE IF list = "buffer_none" /\ \E k \in DOMAIN c.ret : c.ret[k] # None
    THEN [exc |-> "ValueError", ret |-> <<>>]
    ELSE c

\* no call of download_files is made while a function is studied on its own
InitIdle ==
  /\ fs = [path \in Paths |-> Absent]
  /\ index = [d \in Dbs |-> <<>>]
  /\ created = {}
  /\ mpc = [p \in Procs |-> "idle"]
  /\ args = [p \in Procs |-> NoArgs]
  /\ names = [p \in Procs |-> EmptyNames]
  /\ futures = [p \in Procs |-> <<>>]
  /\ errlog = [p \in Procs |-> <<>>]
  /\ raised = [p \in Procs |-> NoExc]
  /\ nrun = 0
  /\ live = {"A"}

\* the planner returned, for one list, a plain relative name followed by any path
InitPaths ==
  /\ InitIdle
  /\ \E list \in Lists :
       \E q \in PlannerPaths \cup (IF list \in {"buffer_filenames", "buffer_none"}
                                    THEN {None} ELSE {}) :
         probe = [fn |-> "calculate_filenames_for_range", list |-> list,
                  paths |-> <<<<"f">>, q>>, exc |-> "pending", ret |-> <<>>]

\* calculate_filenames_for_range converts the list and returns or raises
CalculatePaths ==
  /\ probe.fn = "calculate_filenames_for_range" /\ probe.exc = "pending"
  /\ LET c == ConvertedList(probe.list, probe.paths)
     IN probe' = [probe EXCEPT !.exc = c.exc, !.ret = c.ret]
  /\ UNCHANGED <<fs, index, created, mpc, args, names, futures, errlog, raised, nrun, live>>

SpecPaths == InitPaths /\ [][CalculatePaths]_vars

\* ------------------------------------------------------------- ArrayParser
\* An ArrayParser is given by the lengths Ns of its axes, in keyword order; the
\* values of an axis are numbered 0, 1, ... in their order, and a combination is
\* the tuple of the values, one per key, that unpack zips with self.keys.
Pools(Ns) == [k \in DOMAIN Ns |-> [m \in 1..Ns[k] |-> m - 1]]

\* itertools.product(*pools): result = [x + [y] for x in result for y in pool],
\* pool after pool
RECURSIVE product(_)
product(pools) ==
  IF pools = <<>> THEN << <<>> >>
  ELSE LET r == product(SubSeq(pools, 1, Len(pools) - 1))
           pool == pools[Len(pools)]
       IN [j \in 1..(Len(r) * Len(pool)) |->
             Append(r[((j - 1) \div Len(pool)) + 1], pool[((j - 1) % Len(pool)) + 1])]

\* self.products
products(Ns) == product(Pools(Ns))

\* np.prod(self._Ns): an integer, but the float 1.0 for the empty list
RECURSIVE Multiply(_)
Multiply(Ns) == IF Ns = <<>> THEN 1 ELSE Head(Ns) * Multiply(Tail(Ns))
np_prod(Ns) ==
  [dtype |-> IF Ns = <<>> THEN "float64" ELSE "int64", value |-> Multiply(Ns)]

Returns(v) == [exc |-> NoExc, val |-> v]
Raises(e) == [exc |-> e, val |-> <<>>]

\* unpack(i): self.products[i] by list indexing (a negative index counts from the
\* end, an index outside the list raises IndexError)
unpack(Ns, i) ==
  LET P == products(Ns) n == Len(P) IN
  IF 0 <= i /\ i < n THEN Returns(P[i + 1])
  ELSE IF 0 - n <= i /\ i < 0 THEN Returns(P[n + i + 1])
  ELSE Raises("IndexError")

\* len(self): __len__ returns np.prod(self._Ns), which len() accepts only if it
\* is an integer
ap_len(Ns) ==
  IF np_prod(Ns).dtype = "int64" THEN Returns(np_prod(Ns).value) ELSE Raises("TypeError")

\* [self.unpack(i) for i in idx]: the first exception ends it
UnpackAll(Ns, idx) ==
  IF \E j \in DOMAIN idx : unpack(Ns, idx[j]).exc # NoExc
    THEN Raises("IndexError")
    ELSE Returns([j \in DOMAIN idx |-> unpack(Ns, idx[j]).val])

\* range(start, stop, step) as a list, step # 0
range(start, stop, step) ==
  LET count == IF step > 0
                 THEN (IF stop > start THEN ((stop - start - 1) \div step) + 1 ELSE 0)
                 ELSE (IF stop < start THEN ((start - stop - 1) \div (0 - step)) + 1 ELSE 0)
  IN [j \in 1..count |-> start + (j - 1) * step]

\* list(iter(self)): for i in range(len(self)): yield self.unpack(i)
ap_iter(Ns) ==
  IF ap_len(Ns).exc # NoExc THEN ap_len(Ns)
  ELSE UnpackAll(Ns, range(0, ap_len(Ns).val, 1))

\* an optional integer of a slice: <<>> is None, <<v>> is v
Opt(S) == {<<>>} \cup {<<v>> : v \in S}

\* self[slice(start, stop, step)]
getitem_slice(Ns, sl) ==
  LET start == IF sl.start # <<>> THEN sl.start[1] ELSE 0
      step == IF sl.step # <<>> THEN sl.step[1] ELSE 1
  IN IF sl.stop = <<>> /\ ap_len(Ns).exc # NoExc THEN ap_len(Ns)
     ELSE LET stop == IF sl.stop # <<>> THEN sl.stop[1] ELSE ap_len(Ns).val IN
          IF step = 0 THEN Raises("ValueError")
          ELSE UnpackAll(Ns, range(start, stop, step))

AxisLens == UNION {[1..m -> 1..MaxAxisLen] : m \in 0..MaxAxes}
Slices ==
  [start : Opt((0 - MaxIndex)..MaxIndex), stop : Opt((0 - MaxIndex)..MaxIndex),
   step : Opt({0 - 2, 0 - 1, 0, 1, 2})]

\* ArrayParser(**kwargs) has been constructed
InitIndexer ==
  /\ InitIdle
  /\ \E Ns \in AxisLens :
       probe = [fn |-> "ArrayParser", Ns |-> Ns, op |-> "init", arg |-> <<>>,
                exc |-> NoExc, val |-> <<>>]

Called(op, arg, r) ==
  /\ probe.fn = "ArrayParser" /\ probe.op = "init"
  /\ probe' = [probe EXCEPT !.op = op, !.arg = arg, !.exc = r.exc, !.val = r.val]
  /\ UNCHANGED <<fs, index, created, mpc, args, names, futures, errlog, raised, nrun, live>>

\* len(p)
CallLen == Called("len", <<>>, ap_len(probe.Ns))
\* p(i) and p[i] with an integer i
CallAt ==
  \E i \in (0 - Multiply(probe.Ns) - 1)..Multiply(probe.Ns) :
    Called("call", i, unpack(probe.Ns, i))
\* list(p)
CallIter == Called("iter", <<>>, ap_iter(probe.Ns))
\* p[start:stop:step]
CallSlice == \E sl \in Slices : Called("getitem", sl, getitem_slice(probe.Ns, sl))

NextIndexer == CallLen \/ CallAt \/ CallIter \/ CallSlice
SpecIndexer == InitIndexer /\ [][NextIndexer]_vars

\* ------------------------------------------ a manager without staging root
\* what a planner may put in one entry of buffer_filenames: the None sentinel, a
\* relative name, an absolute path
StagingEntries ==
  {None, buffer_dir \o <<"f">>} \cup {q \in PlannerPaths : Len(q) <= 1}
StagingLists == UNION {[1..n -> StagingEntries] : n \in 1..NItems}

\* download_files of a manager constructed with buffer_dir=None, as the first call
\* of the process, for a planner that returned the staging list stg: lines 174-180
\* accept the list or raise, then the call goes on with the converted list
DownloadSentinel(p) ==
  \E stg \in StagingLists :
    LET c == ConvertedList("buffer_none", stg)
        n == [source_filenames   |-> [k \in DOMAIN stg |-> SourceName(k)],
              buffer_filenames   |-> c.ret,
              local_filenames    |-> [k \in DOMAIN stg |-> LocalPath(k)],
              database_filenames |-> [k \in DOMAIN stg |-> DbName(k)]]
    IN
    /\ probe' = [fn |-> "download_files", buffer_dir |-> None, staging |-> stg]
    /\ IF c.exc # NoExc THEN
         /\ p \in live
         /\ mpc[p] = "idle" /\ nrun = 0
         /\ nrun' = nrun + 1
         /\ args' = [args EXCEPT ![p] =
              [call |-> nrun + 1, start |-> 0, end |-> 1, sequential |-> FALSE]]
         /\ mpc' = [mpc EXCEPT ![p] = "raised"]
         /\ raised' = [raised EXCEPT ![p] = c.exc]
         /\ names' = [names EXCEPT ![p] = EmptyNames]
         /\ futures' = [futures EXCEPT ![p] = <<>>]
         /\ errlog' = [errlog EXCEPT ![p] = <<>>]
         /\ UNCHANGED <<fs, index, created, live>>
       ELSE DownloadNamedIn(p, n)

\* the same call of a manager constructed with a staging root (download.py): the
\* planner's relative staging names are joined to the root
DownloadBuffered(p) ==
  /\ DownloadNamedIn(p, calculate_filenames_for_range(0, NItems))
  /\ probe' = [fn |-> "download_files", buffer_dir |-> buffer_dir,
               staging |-> [k \in Items |-> <<ToString(k)>>]]

NextSentinel ==
  \E p \in Procs :
    \/ DownloadSentinel(p)
    \/ DownloadBuffered(p)
    \/ Join(p)
    \/ \E k \in Items : TaskStep(p, k)
SpecSentinel == Init /\ [][NextSentinel]_vars

\* ------------------------------------- calculate_monthly_filenames on its own
\* A pd.Timestamp (tz='UTC') is the number of whole hours since 00:00 of 1 January
\* of FirstYear; the clock is read in half hours.
FirstYear == 2024
Years == FirstYear..(FirstYear + MaxYears - 1)
Months == 1..12
IsLeap(y) == (y % 4 = 0 /\ y % 100 # 0) \/ y % 400 = 0
DaysInMonth(y, m) ==
  IF m = 2 THEN (IF IsLeap(y) THEN 29 ELSE 28)
  ELSE IF m \in {4, 6, 9, 11} THEN 30 ELSE 31
RECURSIVE DaysBefore(_, _)
\* days from 1 January of FirstYear to the first day of month m of year y
DaysBefore(y, m) ==
  IF m > 1 THEN DaysBefore(y, m - 1) + DaysInMonth(y, m - 1)
  ELSE IF y > FirstYear THEN DaysBefore(y - 1, 12) + DaysInMonth(y - 1, 12)
  ELSE 0
\* pd.Timestamp(year=, month=, day=, hour=, tz='UTC')
Timestamp(year, month, day, hour) == (DaysBefore(year, month) + day - 1) * 24 + hour
\* ts + pd.tseries.offsets.MonthEnd(0), for ts at 00:00 of day `day`: the last day
\* of the month of ts, at 00:00 (a ts on the last day stays)
MonthEnd(year, month, day) == Timestamp(year, month, DaysInMonth(year, month), 0)
\* Timestamp.floor('h') of a clock read in half hours
floor_h(clock) == clock \div 2

\* calculate_monthly_filenames(year, month) with the clock at `clock`, down to the
\* call of the planner in calculate_filenames_for_range: the exception and the line
\* that raises it, or the window the planner is called with
calculate_monthly_filenames(year, month, clock) ==
  LET start == Timestamp(year, month, 1, 0)
      end == MonthEnd(year, month, 1) + 23
      now == floor_h(clock)
      clipped == Min(now, end)
  IN IF start > now THEN [exc |-> "ValueError", line |-> 189, start |-> 0, end |-> 0]
     ELSE IF start >= clipped THEN [exc |-> "ValueError", line |-> 170, start |-> 0, end |-> 0]
     ELSE [exc |-> NoExc, line |-> 172, start |-> start, end |-> clipped]

\* the clock readings: around the start of every month (also the end of the month
\* before), and the middle of every month
ClockHours ==
  {h \in {Timestamp(y, m, 1, 0) + d : y \in Years, m \in Months, d \in (0 - MaxSkew)..MaxSkew}
        \cup {Timestamp(y, m, 15, 12) : y \in Years, m \in Months} : h >= 0}
Clocks == {2 * h + half : h \in ClockHours, half \in 0..1}

InitMonthly ==
  /\ InitIdle
  /\ \E y \in Years, m \in Months, c \in Clocks :
       probe = [fn |-> "calculate_monthly_filenames", year |-> y, month |-> m,
                clock |-> c, exc |-> "pending", line |-> 0, start |-> 0, end |-> 0]

\* download_files(mode='monthly', year, month) calculates its file names
CalculateMonthly ==
  /\ probe.fn = "calculate_monthly_filenames" /\ probe.exc = "pending"
  /\ LET r == calculate_monthly_filenames(probe.year, probe.month, probe.clock)
     IN probe' = [probe EXCEPT !.exc = r.exc, !.line = r.line,
                               !.start = r.start, !.end = r.end]
  /\ UNCHANGED <<fs, index, created, mpc, args, names, futures, errlog, raised, nrun, live>>

SpecMonthly == InitMonthly /\ [][CalculateMonthly]_vars

\* calls of download_files in any mode, with any arguments and planner shape
NextInput ==
  \E p \in Procs :
    \/ DownloadFilesMode(p)
    \/ Join(p)
    \/ \E k \in Items : TaskStep(p, k)
SpecInput == Init /\ [][NextInput]_vars

\* ================================================================= claims
HasRecord(db, src) == \E n \in DOMAIN index[db] : index[db][n].source_filename = src
AllTasks == {<<p, k>> \in Procs \X Items : k \in Tasks(p)}

\* C1: a file exists under the destination name only with the size the remote
\* source declared, and it gets there only by the rename of a '.partial_' file of
\* that size onto a name that did not exist; bytes are never written under the
\* destination name itself.
C1_AtomicCommit ==
  /\ [](\A i \in Items :
          exists(fs, BufferPath(i)) =>
            fs[BufferPath(i)].size = ContentLength(SourceName(i)))
  /\ [][\A i \in Items :
          LET dest == BufferPath(i) IN
          (fs'[dest] # fs[dest] /\ exists(fs', dest)) =>
            /\ ~exists(fs, dest)
            /\ exists(fs, PartialOf(dest))
            /\ fs[PartialOf(dest)].size = ContentLength(SourceName(i))
            /\ fs'[dest] = fs[PartialOf(dest)]
            /\ ~exists(fs', PartialOf(dest))]_vars

\* the process was killed between the write and the size check: the '.partial_'
\* file is short and nothing exists under the destination name
C1_Witness ==
  /\ mpc["A"] = "killed"
  /\ exists(fs, PartialOf(BufferPath(1)))
  /\ fs[PartialOf(BufferPath(1))].size < ContentLength(SourceName(1))
  /\ ~exists(fs, BufferPath(1))

\* C2: a fetch whose attempts all fail transiently makes max_trial attempts, sleeps
\* only between them, raises MaximumTrialExceededError, creates no destination
\* file and leaves no record.
C2_ExhaustedRaises ==
  \A <<p, k>> \in AllTasks :
    LET t == futures[p][k] IN
    (t.pc = "done" /\ t.requests = max_trial /\ t.reply = "error") =>
      /\ t.exc = "MaximumTrialExceededError"
      /\ t.sleeps = max_trial - 1
      /\ ~exists(fs, t.buffer_filename)
      /\ ~HasRecord(t.database_filename, t.source_filename)

\* C3: when the run has returned, every dispatched item has exactly one of: a
\* record in its index, a NotFound skip, an error entry naming its source.
C3_EveryItemReported ==
  \A p \in Procs :
    mpc[p] = "returned" =>
      \A k \in Tasks(p) :
        LET t == futures[p][k]
            rec == HasRecord(t.database_filename, t.source_filename)
            skip == t.flag = "False"
            err == t.source_filename \in Range(errlog[p])
        IN /\ rec \/ skip \/ err
           /\ ~(rec /\ skip) /\ ~(rec /\ err) /\ ~(skip /\ err)

\* C4: a 404 answer on any attempt ends the task at once: Skipped (False), no
\* exception, no processor call, no insert, no destination file, no record, and the
\* task makes no further step (no further request).
C4_NotFoundSkips ==
  /\ [](\A <<p, k>> \in AllTasks :
          LET t == futures[p][k] IN
          t.reply = "404" =>
            /\ t.pc = "done" /\ t.flag = "False" /\ t.exc = NoExc
            /\ t.callbacks = 0 /\ t.inserts = 0
            /\ ~exists(fs, t.buffer_filename)
            /\ ~HasRecord(t.database_filename, t.source_filename))
  /\ [][\A <<p, k>> \in AllTasks :
          (futures[p][k].reply = "404" /\ args'[p].call = args[p].call
             /\ k \in DOMAIN futures'[p]) =>
            futures'[p][k] = futures[p][k]]_vars

\* a 404 that followed two transient failures, in a run that returned without error
C4_Witness ==
  \E <<p, k>> \in AllTasks :
    /\ futures[p][k].reply = "404"
    /\ futures[p][k].requests = 3
    /\ futures[p][k].sleeps = 2
    /\ mpc[p] = "returned"
    /\ errlog[p] = <<>>

\* C5: download_files never raises for an item's failure (it raises only for an
\* input error or the unsupported mode, before any task exists), and when it has
\* returned every item whose fetch, processor and insert succeeded has its record.
C5_FailureIsolation ==
  \A p \in Procs :
    /\ mpc[p] = "raised" =>
         raised[p] \in {"ValueError", "NotImplementedError"} /\ futures[p] = <<>>
    /\ mpc[p] = "returned" =>
         /\ raised[p] = NoExc
         /\ \A k \in Tasks(p) :
              LET t == futures[p][k] IN
              (t.flag = "True" /\ t.callbacks = 1 /\ t.inserts = 1 /\ t.exc = NoExc) =>
                HasRecord(t.database_filename, t.source_filename)

\* a run that returned with one item failed in the processor and another inserted
C5_Witness ==
  \E p \in Procs :
    /\ mpc[p] = "returned"
    /\ \E j, k \in Tasks(p) :
         /\ futures[p][j].exc = "ProcessorError"
         /\ errlog[p] = <<futures[p][j].source_filename>>
         /\ futures[p][k].inserts = 1 /\ futures[p][k].exc = NoExc
         /\ HasRecord(futures[p][k].database_filename, futures[p][k].source_filename)

\* C6: once the final file of an item exists, no step writes or replaces it.
C6_NoOverwrite ==
  [][\A i \in Items :
       exists(fs, LocalPath(i)) => fs'[LocalPath(i)] = fs[LocalPath(i)]]_vars

Kept(c, idx) ==
  {k \in DOMAIN c.source_filenames :
     ~\E n \in DOMAIN idx[c.database_filenames[k]] :
        idx[c.database_filenames[k]][n].source_filename = c.source_filenames[k]}
Nth(S, j) == CHOOSE k \in S : Cardinality({x \in S : x <= k}) = j

\* C7: the lists after the filter, and the arguments of the submitted tasks, are the
\* candidates without a record of their source in their own index, in candidate
\* order; the j-th entry of each list comes from the same candidate.
C7_DedupFilter ==
  [][\A p \in Procs :
       (args'[p].call # args[p].call /\ args'[p].start < args'[p].end) =>
         LET c == calculate_filenames_for_range(args'[p].start, args'[p].end)
             keep == Kept(c, index)
             m == Cardinality(keep)
             new == names'[p]
         IN /\ Len(new.source_filenames) = m /\ Len(new.buffer_filenames) = m
            /\ Len(new.local_filenames) = m /\ Len(new.database_filenames) = m
            /\ \A j \in 1..m :
                 /\ new.source_filenames[j] = c.source_filenames[Nth(keep, j)]
                 /\ new.buffer_filenames[j] = c.buffer_filenames[Nth(keep, j)]
                 /\ new.local_filenames[j] = c.local_filenames[Nth(keep, j)]
                 /\ new.database_filenames[j] = c.database_filenames[Nth(keep, j)]
            /\ mpc'[p] = "pool" =>
                 /\ Len(futures'[p]) = m
                 /\ \A j \in 1..m :
                      LET t == futures'[p][j] IN
                      /\ t.source_filename = c.source_filenames[Nth(keep, j)]
                      /\ t.buffer_filename = c.buffer_filenames[Nth(keep, j)]
                      /\ t.local_filename = c.local_filenames[Nth(keep, j)]
                      /\ t.database_filename = c.database_filenames[Nth(keep, j)]
            /\ mpc'[p] # "pool" => futures'[p] = <<>>]_vars

\* a call over candidates 1, 2 with item 1 indexed: the one task is item 2's, with
\* item 2's paths
C7_Witness ==
  /\ mpc["A"] = "pool"
  /\ args["A"].start = 0 /\ args["A"].end = 2
  /\ HasRecord(DbName(1), SourceName(1))
  /\ names["A"].source_filenames = <<SourceName(2)>>
  /\ Len(futures["A"]) = 1
  /\ futures["A"][1].buffer_filename = BufferPath(2)

InsertedBy(p) ==
  {futures[p][k].source_filename :
     k \in {x \in Tasks(p) : futures[p][x].inserts = 1 /\ futures[p][x].exc = NoExc}}

\* C8: a call that follows a returned call over the same candidates finds new
\* exactly the items that call dispatched and did not insert; if it inserted all of
\* them, the call returns with no task, no file change and no insert.
C8_Idempotence ==
  [][\A p \in Procs :
       ( /\ args'[p].call # args[p].call
         /\ mpc[p] = "returned"
         /\ args[p].start < args[p].end /\ args'[p].start < args'[p].end
         /\ PlannedItems(args[p].start, args[p].end)
              = PlannedItems(args'[p].start, args'[p].end) ) =>
         /\ Range(names'[p].source_filenames)
              = Range(names[p].source_filenames) \ InsertedBy(p)
         /\ Range(names[p].source_filenames) \subseteq InsertedBy(p) =>
              /\ names'[p].source_filenames = <<>>
              /\ mpc'[p] = "returned" /\ raised'[p] = NoExc
              /\ futures'[p] = <<>>
              /\ fs' = fs /\ index' = index]_vars

\* the second call over candidates 1, 2 has returned with nothing new, both records
\* being those of the first call
C8_Witness ==
  /\ mpc["A"] = "returned" /\ args["A"].call = 2
  /\ args["A"].start = 0 /\ args["A"].end = 2
  /\ names["A"].source_filenames = <<>> /\ futures["A"] = <<>>
  /\ \A i \in 1..2 :
       \E n \in DOMAIN index[DbName(i)] :
         /\ index[DbName(i)][n].source_filename = SourceName(i)
         /\ index[DbName(i)][n].last_modified = 1

\* C9: every index instance holds at most one record per source locator, and a
\* step never changes or removes a record: it leaves the table as it is or appends.
C9_AppendOnlyUnique ==
  /\ [](\A d \in Dbs : \A m, n \in DOMAIN index[d] :
          index[d][m].source_filename = index[d][n].source_filename => m = n)
  /\ [][\A d \in Dbs :
          /\ Len(index'[d]) >= Len(index[d])
          /\ \A n \in DOMAIN index[d] : index'[d][n] = index[d][n]]_vars

\* two concurrent calls both found item 1 new and both reached the insert: the
\* table holds the record of A's task, B's insert was refused
C9_Witness ==
  /\ mpc["A"] = "pool" /\ mpc["B"] = "pool"
  /\ Len(futures["A"]) = 1 /\ Len(futures["B"]) = 1
  /\ futures["A"][1].source_filename = futures["B"][1].source_filename
  /\ futures["A"][1].inserts = 1 /\ futures["A"][1].exc = NoExc
  /\ futures["B"][1].inserts = 1 /\ futures["B"][1].exc = "InsertError"
  /\ index[futures["A"][1].database_filename] = <<futures["A"][1].meta>>

ValidCall(p) == args[p].call > 0 /\ args[p].start < args[p].end
AllIndexed(p) ==
  \A i \in Range(PlannedItems(args[p].start, args[p].end)) :
    HasRecord(DbName(i), SourceName(i))

\* C10 as stated: every call with sequential=True (and valid arguments) ends in
\* NotImplementedError, with no task.
C10_SequentialAlwaysRaises ==
  \A p \in Procs :
    (ValidCall(p) /\ args[p].sequential) =>
      mpc[p] = "raised" /\ raised[p] = "NotImplementedError" /\ futures[p] = <<>>

\* C10 (amended): a call with sequential=True and valid arguments submits no task;
\* it ends in NotImplementedError when at least one candidate is new, and returns
\* normally when every candidate is already indexed.
C10_SequentialRaisesIfNew ==
  \A p \in Procs :
    (ValidCall(p) /\ args[p].sequential) =>
      /\ futures[p] = <<>>
      /\ IF AllIndexed(p)
           THEN mpc[p] = "returned" /\ raised[p] = NoExc
           ELSE mpc[p] = "raised" /\ raised[p] = "NotImplementedError"

\* a sequential call in the second run, one candidate indexed and one new, has raised
C10_Witness ==
  /\ args["A"].sequential /\ args["A"].call = 2
  /\ mpc["A"] = "raised" /\ raised["A"] = "NotImplementedError"
  /\ Len(names["A"].source_filenames) = 1
  /\ \E i \in Items : HasRecord(DbName(i), SourceName(i))

\* where a path points: ".." steps back one component, never above "/"
RECURSIVE Resolve(_, _)
Resolve(acc, p) ==
  IF p = <<>> THEN acc
  ELSE IF Head(p) = ".."
    THEN Resolve(IF Len(acc) > 1 THEN SubSeq(acc, 1, Len(acc) - 1) ELSE acc, Tail(p))
    ELSE Resolve(Append(acc, Head(p)), Tail(p))
\* the path, taken relative to root when it is not absolute, lies under root
Under(p, root) ==
  LET q == Resolve(<<>>, IF is_absolute(p) THEN p ELSE root \o p)
  IN Len(root) <= Len(q) /\ SubSeq(q, 1, Len(root)) = root

MissingParameter(kw) ==
  \/ kw.mode = "latest" /\ kw.backfill_hours = NoValue
  \/ kw.mode = "monthly" /\ (kw.year = NoValue \/ kw.month = NoValue)
  \/ kw.mode = "range" /\ (kw.start = NoValue \/ kw.end = NoValue)
InputError(kw) ==
  \/ MissingParameter(kw)
  \/ kw.mode = "range" /\ kw.start >= kw.end
  \/ kw.mode = "monthly" /\ MonthStart(kw.month) > utcnow
  \/ \E i \in Items : ~Under(PlannerLocal(kw.planner, i), data_dir)

\* C11: a call with a missing parameter of its mode, with start >= end in mode
\* 'range', with a future month, or with a planner path outside its root raises at
\* once: no database was initialised, no task submitted, no file or record written.
C11_InputErrorAborts ==
  [][\A p \in Procs :
       (args'[p].call # args[p].call /\ InputError(probe'.kwargs)) =>
         /\ mpc'[p] = "raised" /\ raised'[p] = "ValueError"
         /\ futures'[p] = <<>> /\ names'[p] = EmptyNames
         /\ created' = created /\ index' = index /\ fs' = fs]_vars

\* C12: download_files has returned only when every task it submitted is in a
\* terminal state; after that no task of the run takes a step and no file or record
\* changes until the next call; and while the pool works, a task that is not yet
\* terminal can always take its next step, whatever happened to the other tasks.
C12_JoinBarrier ==
  /\ [](\A p \in Procs :
          /\ mpc[p] = "returned" => \A k \in Tasks(p) : futures[p][k].pc = "done"
          /\ mpc[p] = "pool" =>
               \A k \in Tasks(p) :
                 futures[p][k].pc # "done" => ENABLED TaskStep(p, k))
  /\ [][\A p \in Procs :
          (mpc[p] = "returned" /\ args'[p].call = args[p].call) =>
            futures'[p] = futures[p] /\ fs' = fs /\ index' = index]_vars

\* a run has returned after one task exhausted its attempts and the other was
\* fetched, processed and inserted
C12_Witness ==
  \E p \in Procs :
    /\ mpc[p] = "returned"
    /\ \E j, k \in Tasks(p) :
         /\ futures[p][j].flag = "None" /\ futures[p][j].pc = "done"
         /\ futures[p][k].flag = "True" /\ futures[p][k].inserts = 1
         /\ futures[p][k].exc = NoExc /\ futures[p][k].pc = "done"

\* C13: at most max_workers tasks are in progress at any moment; a task that left
\* the queue never returns to it (it is started once); and a call that dispatched
\* tasks ends with every one of them started and terminal.
C13_BoundedConcurrency ==
  /\ [](\A p \in Procs : Cardinality(Running(p)) <= max_workers)
  /\ [][\A p \in Procs : \A k \in Tasks(p) :
          (futures[p][k].pc # "pending" /\ args'[p].call = args[p].call) =>
            futures'[p][k].pc # "pending"]_vars
  /\ \A p \in Procs :
       [](mpc[p] = "pool" =>
            <>(mpc[p] = "returned" /\ \A k \in Tasks(p) : futures[p][k].pc = "done"))

\* all ten workers are busy and a submitted task waits in the queue
C13_Witness ==
  /\ mpc["A"] = "pool"
  /\ Len(futures["A"]) > max_workers
  /\ Cardinality(Running("A")) = max_workers
  /\ \E k \in Tasks("A") : futures["A"][k].pc = "pending"

\* the item failed: its task raised, or its fetch used up its attempts
FailedItem(t) == t.exc # NoExc \/ t.flag = "None"
FailedInOrder(p) ==
  LET F == SelectSeq([k \in 1..Len(futures[p]) |-> k],
                     LAMBDA k : FailedItem(futures[p][k]))
  IN [j \in DOMAIN F |-> futures[p][F[j]].source_filename]

\* C14: when the run has returned, its error entries are the source locators of
\* the failed items, one entry each, in submission order, whatever the order in
\* which the workers finished.
C14_ErrorsInSubmissionOrder ==
  \A p \in Procs : mpc[p] = "returned" => errlog[p] = FailedInOrder(p)

\* C15: the batch of three candidates on an empty index (one answered 404, one
\* fetched at once, one fetched at its third attempt) returns normally with exactly
\* two records, those of the two fetched items, one skip and no error entry.
C15_MixedBatch ==
  mpc["A"] = "returned" =>
    /\ raised["A"] = NoExc /\ errlog["A"] = <<>>
    /\ Len(futures["A"]) = Len(Scenario)
    /\ Cardinality({<<d, n>> \in Dbs \X (1..Len(Scenario)) : n \in DOMAIN index[d]}) = 2
    /\ \A k \in DOMAIN Scenario :
         HasRecord(DbName(k), SourceName(k)) <=> Scenario[k] # "404"
    /\ {k \in Tasks("A") : futures["A"][k].flag = "False"}
         = {k \in DOMAIN Scenario : Scenario[k] = "404"}
    /\ Cardinality({k \in Tasks("A") : futures["A"][k].flag = "False"}) = 1

\* the batch has returned, the item served at the third attempt inserted
C15_Witness ==
  /\ mpc["A"] = "returned"
  /\ futures["A"][1].flag = "False"
  /\ futures["A"][3].flag = "True" /\ futures["A"][3].inserts = 1
  /\ HasRecord(DbName(2), SourceName(2)) /\ HasRecord(DbName(3), SourceName(3))

\* C16: a task started while its destination exists ends at once in FileExistsError:
\* no request, no backoff wait, no processor call, no insert, and the step changes no
\* file (the existing file and any '.partial_' file stay as they are); the task takes
\* no further step.
C16_ExistingDestinationFatal ==
  /\ [][\A p \in Procs : \A k \in Tasks(p) :
          ( /\ futures[p][k].pc = "pending" /\ args'[p].call = args[p].call
            /\ futures'[p][k].pc # "pending"
            /\ exists(fs, futures[p][k].buffer_filename) ) =>
            /\ futures'[p][k] = Raise(futures[p][k], "FileExistsError")
            /\ fs' = fs]_vars
  /\ [](\A <<p, k>> \in AllTasks :
          futures[p][k].exc = "FileExistsError" =>
            /\ futures[p][k].pc = "done" /\ futures[p][k].flag = "unset"
            /\ futures[p][k].requests = 0 /\ futures[p][k].sleeps = 0
            /\ futures[p][k].callbacks = 0 /\ futures[p][k].inserts = 0)
  /\ [][\A p \in Procs : \A k \in Tasks(p) :
          (futures[p][k].exc = "FileExistsError" /\ args'[p].call = args[p].call) =>
            futures'[p][k] = futures[p][k]]_vars

\* the second run found the staged file the first run left behind when its
\* processor failed: the task raised, the file is the one of the first run
C16_Witness ==
  \E k \in Tasks("A") :
    /\ args["A"].call = 2 /\ mpc["A"] = "returned"
    /\ futures["A"][k].exc = "FileExistsError"
    /\ exists(fs, futures["A"][k].buffer_filename)
    /\ fs[futures["A"][k].buffer_filename].mtime = 1
    /\ futures["A"][k].source_filename \in Range(errlog["A"])

\* C17: when calculate_filenames_for_range returns, every path of the list that is
\* not the None sentinel lies under the root of the list, whether the planner gave
\* it absolute or relative, with or without ".." components.
C17_RootContainment ==
  (probe.fn = "calculate_filenames_for_range" /\ probe.exc = NoExc) =>
    \A k \in DOMAIN probe.ret :
      probe.ret[k] # None => Under(probe.ret[k], RootOf(probe.list))

\* the product of the lengths of the axes after axis k
After(Ns, k) == Multiply(SubSeq(Ns, k + 1, Len(Ns)))
\* the i-th combination, the last axis varying fastest
Combination(Ns, i) == [k \in DOMAIN Ns |-> (i \div After(Ns, k)) % Ns[k]]

\* C18: with n the product of the axis lengths, len is n; at(i) for 0 <= i < n is
\* the i-th combination with the last axis varying fastest; at(i) for -n <= i < 0 is
\* at(n + i); iteration yields at(0), ..., at(n-1), each combination once.
C18_IndexerAddressing ==
  probe.fn = "ArrayParser" =>
    LET Ns == probe.Ns
        n == Multiply(Ns)
    IN /\ probe.op = "len" => probe.exc = NoExc /\ probe.val = n
       /\ (probe.op = "call" /\ 0 <= probe.arg /\ probe.arg < n) =>
            probe.exc = NoExc /\ probe.val = Combination(Ns, probe.arg)
       /\ (probe.op = "call" /\ 0 - n <= probe.arg /\ probe.arg < 0) =>
            probe.exc = NoExc /\ probe.val = Combination(Ns, n + probe.arg)
       /\ probe.op = "iter" =>
            /\ probe.exc = NoExc
            /\ probe.val = [j \in 1..n |-> Combination(Ns, j - 1)]
            /\ Cardinality(Range(probe.val)) = n

\* the indices a list of length n yields for the slice (slice.indices(n)), step # 0
Clamp(v, lo, hi) == IF v < lo THEN lo ELSE IF v > hi THEN hi ELSE v
ListSlice(n, sl) ==
  LET step == IF sl.step # <<>> THEN sl.step[1] ELSE 1
      lower == IF step > 0 THEN 0 ELSE 0 - 1
      upper == IF step > 0 THEN n ELSE n - 1
      start == IF sl.start = <<>> THEN (IF step > 0 THEN lower ELSE upper)
               ELSE IF sl.start[1] < 0 THEN Clamp(sl.start[1] + n, lower, upper)
               ELSE Clamp(sl.start[1], lower, upper)
      stop == IF sl.stop = <<>> THEN (IF step > 0 THEN upper ELSE lower)
              ELSE IF sl.stop[1] < 0 THEN Clamp(sl.stop[1] + n, lower, upper)
              ELSE Clamp(sl.stop[1], lower, upper)
  IN range(start, stop, step)

\* C19: for a parser with at least one axis and any slice with a step other than 0,
\* p[start:stop:step] does not raise and is [at(i) for i in S], S being what the
\* same slice selects from the list 0..n-1.
C19_IndexerSlicing ==
  ( /\ probe.fn = "ArrayParser" /\ probe.op = "getitem" /\ probe.Ns # <<>>
    /\ probe.arg.step # <<0>> ) =>
    LET S == ListSlice(Multiply(probe.Ns), probe.arg)
    IN /\ probe.exc = NoExc
       /\ probe.val = [j \in DOMAIN S |-> Combination(probe.Ns, S[j])]

\* C20: within a task the processor is called at most once and only on a committed
\* fetch (the staged file is there with the declared size); the insert is attempted
\* at most once and only with the record the processor returned; a task whose
\* processor failed takes no further step, inserts nothing and is in the error log
\* when the run has returned; a record enters the index only by the insert of a
\* task that committed its fetch and whose processor returned that record.
C20_PipelineOrder ==
  /\ [](\A <<p, k>> \in AllTasks :
          LET t == futures[p][k] IN
          /\ t.callbacks <= 1 /\ t.inserts <= 1
          /\ t.callbacks = 1 => t.flag = "True"
          /\ t.inserts = 1 => (t.callbacks = 1 /\ t.meta = Metadata(t, fs, t.meta.last_modified))
          /\ t.exc = "ProcessorError" =>
               /\ t.pc = "done" /\ t.inserts = 0
               /\ mpc[p] = "returned" => t.source_filename \in Range(errlog[p]))
  /\ [][\A p \in Procs : \A k \in Tasks(p) :
          (args'[p].call = args[p].call /\ k \in DOMAIN futures'[p]) =>
            LET t == futures[p][k] u == futures'[p][k] IN
            /\ u.callbacks > t.callbacks =>
                 /\ t.flag = "True" /\ exists(fs, t.buffer_filename)
                 /\ fs[t.buffer_filename].size = ContentLength(t.source_filename)
            /\ u.inserts > t.inserts => (t.pc = "insert" /\ t.meta # NoMeta)
            /\ t.exc = "ProcessorError" => u = t]_vars
  /\ [][\A d \in Dbs :
          index'[d] # index[d] =>
            \E <<p, k>> \in AllTasks :
              LET t == futures[p][k] IN
              /\ t.flag = "True" /\ t.callbacks = 1 /\ t.inserts = 0 /\ t.exc = NoExc
              /\ t.database_filename = d
              /\ index'[d] = Append(index[d], t.meta)
              /\ t.meta.source_filename = t.source_filename]_vars

\* a run has returned: the processor of one item failed after its fetch (the staged
\* file is still there, no final file, no record, an error entry), another item went
\* through fetch, processor and insert
C20_Witness ==
  /\ mpc["A"] = "returned" /\ Len(futures["A"]) = 2
  /\ \E j, k \in Tasks("A") :
       LET t == futures["A"][j] u == futures["A"][k] IN
       /\ t.exc = "ProcessorError" /\ t.callbacks = 1 /\ t.inserts = 0
       /\ exists(fs, t.buffer_filename) /\ ~exists(fs, t.local_filename)
       /\ ~HasRecord(t.database_filename, t.source_filename)
       /\ errlog["A"] = <<t.source_filename>>
       /\ u.inserts = 1 /\ u.exc = NoExc
       /\ index[u.database_filename] = <<u.meta>>

\* the file names a task writes, renames or deletes: the staged file, its
\* '.partial_' name, the processor's temporary file and the final file
Owned(t) ==
  {t.buffer_filename, PartialOf(t.buffer_filename), TempOf(t.buffer_filename),
   t.local_filename}

\* C21: the names of two tasks of a run are disjoint; a step that changes a file is
\* the step of one task of the run and changes only names of that task; and between
\* the existence check of a task and its rename nothing appears under its
\* destination name.
C21_RaceFreeWrites ==
  /\ [](\A p \in Procs : \A j, k \in Tasks(p) :
          j # k => Owned(futures[p][j]) \cap Owned(futures[p][k]) = {})
  /\ [][\A path \in DOMAIN fs :
          fs'[path] # fs[path] =>
            \E <<p, k>> \in AllTasks :
              /\ path \in Owned(futures[p][k])
              /\ futures'[p][k] # futures[p][k]
              /\ \A j \in Tasks(p) \ {k} : futures'[p][j] = futures[p][j]]_vars
  /\ [](\A <<p, k>> \in AllTasks :
          futures[p][k].pc \in {"request", "written"} =>
            ~exists(fs, futures[p][k].buffer_filename))

\* two tasks of one run are past their existence check at the same time, each with
\* its own '.partial_' file written and not yet renamed
C21_Witness ==
  \E p \in Procs : \E j, k \in Tasks(p) :
    /\ j # k
    /\ futures[p][j].pc = "written" /\ futures[p][k].pc = "written"
    /\ exists(fs, PartialOf(futures[p][j].buffer_filename))
    /\ exists(fs, PartialOf(futures[p][k].buffer_filename))

\* C22: a manager without staging root accepts a staging list exactly when all its
\* entries are the None sentinel (any other entry ends the call in an exception
\* before any work), and the step that starts a task with the sentinel takes the
\* task into its fetch.
C22_SentinelUsable ==
  /\ [][\A p \in Procs :
          (args'[p].call # args[p].call /\ probe'.buffer_dir = None) =>
            IF \A k \in DOMAIN probe'.staging : probe'.staging[k] = None
              THEN /\ mpc'[p] = "pool"
                   /\ Len(futures'[p]) = Len(probe'.staging)
                   /\ \A k \in DOMAIN futures'[p] : futures'[p][k].buffer_filename = None
              ELSE /\ mpc'[p] = "raised" /\ raised'[p] \in {"ValueError", "TypeError"}
                   /\ futures'[p] = <<>> /\ created' = created]_vars
  /\ [][\A p \in Procs : \A k \in Tasks(p) :
          ( /\ futures[p][k].buffer_filename = None
            /\ futures[p][k].pc = "pending" /\ futures'[p][k].pc # "pending" ) =>
            futures'[p][k].pc = "request" /\ futures'[p][k].exc = NoExc]_vars

\* C23: a monthly call for a month that has begun (its first instant is not after
\* the clock) does not raise and calls the planner with start = 00:00 of day 1 and
\* end = min(clock floored to the hour, 23:00 of the last day); a call for a month
\* that has not begun raises ValueError.
C23_MonthlyWindow ==
  (probe.fn = "calculate_monthly_filenames" /\ probe.exc # "pending") =>
    LET first == Timestamp(probe.year, probe.month, 1, 0)
        last == Timestamp(probe.year, probe.month,
                          DaysInMonth(probe.year, probe.month), 23)
        hour == probe.clock \div 2
    IN IF 2 * first <= probe.clock
         THEN /\ probe.exc = NoExc
              /\ probe.start = first
              /\ probe.end = (IF hour < last THEN hour ELSE last)
         ELSE probe.exc = "ValueError"

TasksOf(i) == {<<p, k>> \in AllTasks : futures[p][k].source_filename = SourceName(i)}
\* the staged file of item i is on disk, the item has no record, and no task is
\* working on it
Stuck(i) ==
  /\ exists(fs, BufferPath(i))
  /\ ~HasRecord(DbName(i), SourceName(i))
  /\ \A <<p, k>> \in TasksOf(i) : futures[p][k].pc \in {"pending", "done"}

\* C24: a task whose processor fails after the commit leaves its staged file on disk
\* and no record; from then on the staged file stays as it is and the item stays out
\* of the index; every later call over a window with the item selects it as new, and
\* its task ends in FileExistsError without a request, a processor call or an insert.
C24_LeftoverBlocksItem ==
  /\ [][\A p \in Procs : \A k \in Tasks(p) :
          ( /\ args'[p].call = args[p].call /\ k \in DOMAIN futures'[p]
            /\ futures[p][k].exc = NoExc /\ futures'[p][k].exc = "ProcessorError" ) =>
            \E i \in Items : futures[p][k].source_filename = SourceName(i) /\ Stuck(i)']_vars
  /\ [][\A i \in Items :
          Stuck(i) => (Stuck(i)' /\ fs'[BufferPath(i)] = fs[BufferPath(i)])]_vars
  /\ [][\A p \in Procs : \A i \in Items :
          ( /\ args'[p].call # args[p].call /\ Stuck(i)
            /\ args'[p].start < args'[p].end
            /\ i \in Range(PlannedItems(args'[p].start, args'[p].end)) ) =>
            /\ SourceName(i) \in Range(names'[p].source_filenames)
            /\ ~args'[p].sequential =>
                 \E k \in DOMAIN futures'[p] :
                   /\ futures'[p][k].source_filename = SourceName(i)
                   /\ futures'[p][k].buffer_filename = BufferPath(i)
                   /\ futures'[p][k].pc = "pending"]_vars
  /\ [][\A p \in Procs : \A k \in Tasks(p) : \A i \in Items :
          ( /\ args'[p].call = args[p].call /\ k \in DOMAIN futures'[p] /\ Stuck(i)
            /\ futures[p][k].source_filename = SourceName(i)
            /\ futures[p][k].pc = "pending" /\ futures'[p][k].pc # "pending" ) =>
            /\ futures'[p][k].pc = "done" /\ futures'[p][k].exc = "FileExistsError"
            /\ futures'[p][k].requests = 0 /\ futures'[p][k].callbacks = 0
            /\ futures'[p][k].inserts = 0]_vars

\* the conversion of item 1 failed in the first run, leaving the staged and the
\* temporary file; the second run selected the item again and has returned with the
\* item failed on the existing file, still without record
C24_Witness ==
  /\ args["A"].call = 2 /\ mpc["A"] = "returned"
  /\ Stuck(1)
  /\ fs[BufferPath(1)].mtime = 1 /\ exists(fs, TempOf(BufferPath(1)))
  /\ \E k \in Tasks("A") :
       /\ futures["A"][k].source_filename = SourceName(1)
       /\ futures["A"][k].exc = "FileExistsError" /\ futures["A"][k].requests = 0
  /\ SourceName(1) \in Range(errlog["A"])

\* C25 as stated: with a '.partial_' file of an earlier run on disk, every attempt
\* of the fetch rewrites that file: after the attempt the file is one written in
\* this run.
C25_EveryAttemptRewrites ==
  [][\A p \in Procs : \A k \in Tasks(p) :
       LET part == PartialOf(futures[p][k].buffer_filename) IN
       ( /\ args'[p].call = args[p].call /\ k \in DOMAIN futures'[p]
         /\ futures'[p][k].requests = futures[p][k].requests + 1
         /\ exists(fs, part) /\ fs[part].mtime < nrun ) =>
         exists(fs', part) /\ fs'[part].mtime = nrun]_vars

\* C25 (amended): a task started while a '.partial_' file of its destination is on
\* disk and the destination is absent goes into its fetch; whenever an attempt writes the
\* '.partial_' file, the file is one written in this run with no more bytes than the
\* source declares (nothing of the old file is kept); and a file appears under the
\* destination name only by the rename of a '.partial_' file that the same task has
\* just written in full in this run.
C25_StalePartialRecovery ==
  /\ [][\A p \in Procs : \A k \in Tasks(p) :
          LET t == futures[p][k] IN
          ( /\ args'[p].call = args[p].call /\ k \in DOMAIN futures'[p]
            /\ t.pc = "pending" /\ futures'[p][k].pc # "pending"
            /\ ~exists(fs, t.buffer_filename)
            /\ exists(fs, PartialOf(t.buffer_filename)) ) =>
            /\ futures'[p][k].pc = "request" /\ futures'[p][k].exc = NoExc
            /\ fs' = fs]_vars
  /\ [][\A i \in Items :
          LET part == PartialOf(BufferPath(i)) IN
          (fs'[part] # fs[part] /\ exists(fs', part)) =>
            /\ fs'[part].mtime = nrun
            /\ fs'[part].size <= ContentLength(SourceName(i))
            /\ \E <<p, k>> \in TasksOf(i) :
                 /\ futures[p][k].pc = "request"
                 /\ futures'[p][k].requests = futures[p][k].requests + 1]_vars
  /\ [][\A i \in Items :
          LET dest == BufferPath(i) IN
          (~exists(fs, dest) /\ exists(fs', dest)) =>
            /\ fs'[dest] = fs[PartialOf(dest)]
            /\ fs'[dest].mtime = nrun
            /\ fs'[dest].size = ContentLength(SourceName(i))
            /\ \E <<p, k>> \in TasksOf(i) :
                 futures[p][k].pc = "written" /\ futures[p][k].reply = "data"]_vars

\* the first run was killed after its transfer and left a '.partial_' file; the
\* task of the second run is in its fetch, its first request was refused and the
\* old file is still there, nothing under the destination name
C25_Witness ==
  /\ args["A"].call = 2 /\ mpc["A"] = "pool"
  /\ \E k \in Tasks("A") :
       LET t == futures["A"][k] IN
       /\ t.pc = "request" /\ t.requests = 1 /\ t.exc = NoExc
       /\ exists(fs, PartialOf(t.buffer_filename))
       /\ fs[PartialOf(t.buffer_filename)].mtime = 1
       /\ ~exists(fs, t.buffer_filename)

====
